---- MODULE Spec2Model ----
(***************************************************************************)
(* State machine of the Social Bounty Hunt front end: the App component    *)
(* (session gating, routes, transaction notifier, publish / credit /       *)
(* register / donate handlers) and the Overview component (deed feed).     *)
(*                                                                         *)
(* Strings are sequences of one-character strings; the empty sequence      *)
(* stands for both '' and undefined, which the code treats alike (falsy).  *)
(* A page load is one step: App is constructed and both of its effects     *)
(* run.  The remote contract and the wallet are the environment: every     *)
(* answer they can give is drawn from a small set.                         *)
(***************************************************************************)
EXTENDS Integers, Sequences, FiniteSets, TLC

VARIABLES
  url,            \* signal parameters of the retained navigation URL
  route,          \* path the router currently matches
  currentUser,    \* App prop: Null or the signed-in account id
  error,          \* App prop
  lastTransaction,\* App prop
  message,        \* App state (useState(''))
  registered,     \* App state (useState(false))
  regCheck,       \* promise of fetchRegistered: pending / true / false / rejected
  notice,         \* history: what the notifier effect set at this page load
  registerPc,     \* onRegister in flight: idle / bounds / deposit
  publishForm,    \* Publish form instance: fieldset.disabled, add_deed calls in flight
  donateForm,     \* Donate form instance: fieldset.disabled, donate calls in flight
  deeds,          \* Overview state (useState([])): rows of deeds
  runs,           \* Overview: fetchData runs in flight
  lastFetch,      \* history: the run that last called setDeeds, and its result
  creditCalls     \* Overview instance: deeds passed to contract.credit, in flight

appVars  == <<url, route, currentUser, error, lastTransaction, message,
              registered, regCheck, notice, registerPc>>
compVars == <<publishForm, donateForm, deeds, runs, lastFetch, creditCalls>>
vars     == <<url, route, currentUser, error, lastTransaction, message,
              registered, regCheck, notice, registerPc,
              publishForm, donateForm, deeds, runs, lastFetch, creditCalls>>

----------------------------------------------------------------------------
(* Bounds and input sets *)

MaxDeeds == 4
MaxInFlight == 2
MaxRuns == 2

Null == "null"
Accounts == {"alice", "bob"}
Routes == {"index", "publish", "overview", "donate"}

\* error payloads a redirect can carry: none, plain, percent-encoded, malformed
ErrorPayloads ==
  { <<>>, <<"x">>, <<"x", "%", "2", "0", "x">>, <<"%", "x">>, <<"x", "%", "2">> }
TransactionIds == { <<>>, <<"t", "1">> }
Signals == [error : ErrorPayloads, lastTransaction : TransactionIds]
NoSignal == [error |-> <<>>, lastTransaction |-> <<>>]

----------------------------------------------------------------------------
(* decodeURI, by what it does on the alphabet of ErrorPayloads: a '%'      *)
(* must be followed by two hexadecimal digits, else URIError is thrown;    *)
(* %20, %22, %00 and %02 are single unreserved octets and are decoded.     *)

HexDigits == {"0", "2"}

Chr(h1, h2) ==
  CASE h1 = "2" /\ h2 = "0" -> " "
    [] h1 = "2" /\ h2 = "2" -> "\""
    [] h1 = "0" /\ h2 = "0" -> "NUL"
    [] OTHER -> "STX"

RECURSIVE decodeFrom(_, _, _)
decodeFrom(s, k, out) ==
  IF k > Len(s) THEN [ok |-> TRUE, value |-> out]
  ELSE IF s[k] # "%" THEN decodeFrom(s, k + 1, Append(out, s[k]))
  ELSE IF k + 2 > Len(s) THEN [ok |-> FALSE, value |-> <<>>]
  ELSE IF s[k + 1] \notin HexDigits \/ s[k + 2] \notin HexDigits
       THEN [ok |-> FALSE, value |-> <<>>]
  ELSE decodeFrom(s, k + 3, Append(out, Chr(s[k + 1], s[k + 2])))

decodeURI(s) == decodeFrom(s, 1, <<>>)

----------------------------------------------------------------------------
(* Transaction notifier: the second effect of App *)

SuccessMessage(id) == <<"Successfully executed transaction ">> \o id

\* pushState({}, "", origin + pathname): the query string is dropped
pushStateOriginPath(u) == NoSignal

\* The effect body.  thrown: decodeURI raised URIError before setMessage
\* and pushState were reached.
Notifier(err, tx, msg, u) ==
  IF err # <<>>
  THEN IF decodeURI(err).ok
       THEN [message |-> decodeURI(err).value, url |-> pushStateOriginPath(u),
             set |-> TRUE]
       ELSE [message |-> msg, url |-> u, set |-> FALSE]
  ELSE IF tx # <<>>
  THEN [message |-> SuccessMessage(tx), url |-> pushStateOriginPath(u),
        set |-> TRUE]
  ELSE [message |-> msg, url |-> u, set |-> FALSE]

----------------------------------------------------------------------------
(* Routes: the element each protected route renders *)

IndexRoute(cu, reg) ==
  IF cu # Null THEN (IF reg THEN "Dashboard" ELSE "Register") ELSE "SignIn"

PublishRoute(cu, reg) ==
  IF cu # Null THEN (IF reg THEN "Publish" ELSE "Register") ELSE "SignIn"

OverviewRoute(cu, reg) ==
  IF cu # Null THEN (IF reg THEN "Overview" ELSE "Register") ELSE "SignIn"

DonateRouteUngated(cu, reg) ==
  IF cu # Null THEN "Donate" ELSE "SignIn"

DonateRoute(cu, reg) ==
  IF cu # Null THEN (IF reg THEN "Donate" ELSE "Register") ELSE "SignIn"

RouteElement(r, cu, reg) ==
  CASE r = "index"    -> IndexRoute(cu, reg)
    [] r = "publish"  -> PublishRoute(cu, reg)
    [] r = "overview" -> OverviewRoute(cu, reg)
    [] OTHER          -> DonateRoute(cu, reg)

Element == RouteElement(route, currentUser, registered)

----------------------------------------------------------------------------
(* Overview: feed assembly and credit button *)

Min(a, b) == IF a < b THEN a ELSE b

\* arr.slice(b, e) with 0-based b, e; e is clamped to the length
Slice(arr, b, e) == SubSeq(arr, b + 1, Min(e, Len(arr)))

RECURSIVE chunkLoopOverlap(_, _, _, _)
chunkLoopOverlap(arr, len, i, chunks) ==
  IF i < Len(arr)
  THEN chunkLoopOverlap(arr, len, i + 1, Append(chunks, Slice(arr, i, i + len)))
  ELSE chunks

\* the while loop of splitArrayIntoChunksOfLen, from index i
RECURSIVE chunkLoop(_, _, _, _)
chunkLoop(arr, len, i, chunks) ==
  IF i < Len(arr)
  THEN chunkLoop(arr, len, i + len, Append(chunks, Slice(arr, i, i + len)))
  ELSE chunks

splitArrayIntoChunksOfLenOverlap(arr, len) == chunkLoopOverlap(arr, len, 0, <<>>)

splitArrayIntoChunksOfLen(arr, len) == chunkLoop(arr, len, 0, <<>>)

\* a fetchData run that has just called contract.get_deeds_count()
NewRun(viewer) == [viewer |-> viewer, pc |-> "count", limit |-> 0]

\* author of the ledger's i-th deed
AuthorOf(i) == IF i % 2 = 1 THEN "alice" ELSE "bob"

\* what social_deeds({creditor_id, from_index: "0", limit}) can answer: the
\* first k <= limit deeds of the ledger, is_creditor relative to the viewer
Pages(limit) ==
  UNION { { [i \in 1..k |-> [id |-> i, author |-> AuthorOf(i), is_creditor |-> c[i]]]
            : c \in [1..k -> BOOLEAN] }
          : k \in 0..Min(limit, MaxDeeds) }

CreditButtonSelfFirst(deed, viewer) ==
  IF deed.author = viewer
  THEN [tooltip |-> "You cannot credit yourself.", disabled |-> TRUE, onClick |-> FALSE]
  ELSE IF deed.is_creditor
  THEN [tooltip |-> "You already credited the author.", disabled |-> TRUE, onClick |-> FALSE]
  ELSE [tooltip |-> "Give a credit to the deed author.", disabled |-> FALSE, onClick |-> TRUE]

\* the card-action button: tooltip, 'disabled' class, whether onClick is bound
CreditButton(deed, viewer) ==
  IF deed.is_creditor
  THEN [tooltip |-> "You already credited the author.", disabled |-> TRUE, onClick |-> FALSE]
  ELSE IF deed.author = viewer
  THEN [tooltip |-> "You cannot credit yourself.", disabled |-> TRUE, onClick |-> FALSE]
  ELSE [tooltip |-> "Give a credit to the deed author.", disabled |-> FALSE, onClick |-> TRUE]

Displayed == UNION { { deeds[i][j] : j \in 1..Len(deeds[i]) } : i \in 1..Len(deeds) }

RemoveAt(s, i) == SubSeq(s, 1, i - 1) \o SubSeq(s, i + 1, Len(s))

----------------------------------------------------------------------------
(* Component instances *)

FormInit == [disabled |-> FALSE, inflight |-> 0]

NoFetch == [viewer |-> Null, limit |-> 0, result |-> <<>>]

\* state of the component instances once element el is mounted for viewer cu;
\* the instances of every other element are gone
Mounted(el, cu) ==
  [publishForm |-> FormInit, donateForm |-> FormInit, deeds |-> <<>>,
   runs |-> IF el = "Overview" THEN <<NewRun(cu)>> ELSE <<>>,
   lastFetch |-> NoFetch, creditCalls |-> <<>>]

\* the route element after a change of (route, currentUser, registered)
Render(oldEl, newEl, cu) ==
  IF newEl = oldEl
  THEN UNCHANGED compVars
  ELSE LET m == Mounted(newEl, cu) IN
       /\ publishForm' = m.publishForm
       /\ donateForm' = m.donateForm
       /\ deeds' = m.deeds
       /\ runs' = m.runs
       /\ lastFetch' = m.lastFetch
       /\ creditCalls' = m.creditCalls

----------------------------------------------------------------------------
(* Page load: App is constructed and mounted *)

InitRegisteredTrue == TRUE

InitRegistered == FALSE

\* props index.js derives from the URL it is loaded with
PropsFromUrl(u) == [error |-> u.error, lastTransaction |-> u.lastTransaction]

Booted(cu, u, r) ==
  LET p == PropsFromUrl(u)
      n == Notifier(p.error, p.lastTransaction, <<>>, u)
      m == Mounted(RouteElement(r, cu, InitRegistered), cu)
  IN [url |-> n.url, route |-> r, currentUser |-> cu, error |-> p.error,
      lastTransaction |-> p.lastTransaction, message |-> n.message,
      registered |-> InitRegistered,
      regCheck |-> IF cu = Null THEN "rejected" ELSE "pending",
      notice |-> IF n.set THEN n.message ELSE <<>>,
      registerPc |-> "idle",
      publishForm |-> m.publishForm, donateForm |-> m.donateForm,
      deeds |-> m.deeds, runs |-> m.runs, lastFetch |-> m.lastFetch,
      creditCalls |-> m.creditCalls]

Init ==
  \E cu \in Accounts \cup {Null}, u \in Signals, r \in Routes :
    LET b == Booted(cu, u, r) IN
    /\ url = b.url
    /\ route = b.route
    /\ currentUser = b.currentUser
    /\ error = b.error
    /\ lastTransaction = b.lastTransaction
    /\ message = b.message
    /\ registered = b.registered
    /\ regCheck = b.regCheck
    /\ notice = b.notice
    /\ registerPc = b.registerPc
    /\ publishForm = b.publishForm
    /\ donateForm = b.donateForm
    /\ deeds = b.deeds
    /\ runs = b.runs
    /\ lastFetch = b.lastFetch
    /\ creditCalls = b.creditCalls

\* the browser loads the page at URL (r, u) with wallet session cu
PageLoad(cu, u, r) ==
  LET b == Booted(cu, u, r) IN
  /\ url' = b.url
  /\ route' = b.route
  /\ currentUser' = b.currentUser
  /\ error' = b.error
  /\ lastTransaction' = b.lastTransaction
  /\ message' = b.message
  /\ registered' = b.registered
  /\ regCheck' = b.regCheck
  /\ notice' = b.notice
  /\ registerPc' = b.registerPc
  /\ publishForm' = b.publishForm
  /\ donateForm' = b.donateForm
  /\ deeds' = b.deeds
  /\ runs' = b.runs
  /\ lastFetch' = b.lastFetch
  /\ creditCalls' = b.creditCalls

\* the user reloads, or opens another route of the app in the address bar
Reload == \E r \in Routes : PageLoad(currentUser, url, r)

\* wallet.requestSignIn: the wallet page returns to the app, signed in or not
signIn ==
  /\ currentUser = Null
  /\ \E cu \in Accounts \cup {Null} : PageLoad(cu, NoSignal, route)

\* wallet.signOut(); window.location.replace(origin + pathname)
signOut ==
  /\ currentUser # Null
  /\ PageLoad(Null, NoSignal, route)

\* a call with an attached deposit is signed in the wallet, which redirects
\* back to the app with an error payload or a transaction id
WalletReturn ==
  /\ \/ publishForm.inflight > 0
     \/ donateForm.inflight > 0
     \/ creditCalls # <<>>
     \/ registerPc = "deposit"
  /\ \E u \in Signals : PageLoad(currentUser, u, route)

----------------------------------------------------------------------------
(* Session: the first effect of App *)

\* await contract.is_registered(...) resolves; setRegistered(isRegistered)
FetchRegisteredResolve ==
  /\ regCheck = "pending"
  /\ \E isRegistered \in BOOLEAN :
       /\ regCheck' = (IF isRegistered THEN "true" ELSE "false")
       /\ registered' = isRegistered
       /\ Render(Element, RouteElement(route, currentUser, isRegistered), currentUser)
  /\ UNCHANGED <<url, route, currentUser, error, lastTransaction, message,
                 notice, registerPc>>

\* contract.is_registered rejects: fetchRegistered ends, nothing catches it
FetchRegisteredReject ==
  /\ regCheck = "pending"
  /\ regCheck' = "rejected"
  /\ UNCHANGED <<url, route, currentUser, error, lastTransaction, message,
                 registered, notice, registerPc>>
  /\ UNCHANGED compVars

\* a Link of Layout or Dashboard is followed; the query string is kept by a
\* hash router and dropped by a browser router
Navigate ==
  \E r \in Routes \ {route}, keep \in BOOLEAN :
    /\ route' = r
    /\ url' = (IF keep THEN url ELSE NoSignal)
    /\ Render(Element, RouteElement(r, currentUser, registered), currentUser)
    /\ UNCHANGED <<currentUser, error, lastTransaction, message, registered,
                   regCheck, notice, registerPc>>

clearMessage ==
  /\ message # <<>>
  /\ message' = <<>>
  /\ UNCHANGED <<url, route, currentUser, error, lastTransaction, registered,
                 regCheck, notice, registerPc>>
  /\ UNCHANGED compVars

----------------------------------------------------------------------------
(* Register *)

\* Register button: onRegister awaits contract.storage_balance_bounds()
onRegister ==
  /\ Element = "Register"
  /\ registerPc = "idle"
  /\ registerPc' = "bounds"
  /\ UNCHANGED <<url, route, currentUser, error, lastTransaction, message,
                 registered, regCheck, notice>>
  /\ UNCHANGED compVars

\* storage_balance_bounds resolves (storage_deposit is called) or rejects
StorageBalanceBoundsSettle ==
  /\ registerPc = "bounds"
  /\ \E ok \in BOOLEAN : registerPc' = (IF ok THEN "deposit" ELSE "idle")
  /\ UNCHANGED <<url, route, currentUser, error, lastTransaction, message,
                 registered, regCheck, notice>>
  /\ UNCHANGED compVars

\* storage_deposit resolves (console.log) or rejects
StorageDepositSettle ==
  /\ registerPc = "deposit"
  /\ registerPc' = "idle"
  /\ UNCHANGED <<url, route, currentUser, error, lastTransaction, message,
                 registered, regCheck, notice>>
  /\ UNCHANGED compVars

----------------------------------------------------------------------------
(* Publish and Donate forms *)

onPublishDeedNoDisable ==
  /\ Element = "Publish"
  /\ ~publishForm.disabled
  /\ publishForm.inflight < MaxInFlight
  /\ publishForm' = [publishForm EXCEPT !.inflight = @ + 1]
  /\ UNCHANGED appVars
  /\ UNCHANGED <<donateForm, deeds, runs, lastFetch, creditCalls>>

\* submit of the Publish form: fieldset.disabled = true; contract.add_deed(...)
onPublishDeed ==
  /\ Element = "Publish"
  /\ ~publishForm.disabled
  /\ publishForm.inflight < MaxInFlight
  /\ publishForm' = [disabled |-> TRUE, inflight |-> publishForm.inflight + 1]
  /\ UNCHANGED appVars
  /\ UNCHANGED <<donateForm, deeds, runs, lastFetch, creditCalls>>

\* add_deed resolves (console.log) or rejects
AddDeedSettle ==
  /\ publishForm.inflight > 0
  /\ publishForm' = [publishForm EXCEPT !.inflight = @ - 1]
  /\ UNCHANGED appVars
  /\ UNCHANGED <<donateForm, deeds, runs, lastFetch, creditCalls>>

\* submit of the Donate form: fieldset.disabled = true; contract.donate(...)
onDonate ==
  /\ Element = "Donate"
  /\ ~donateForm.disabled
  /\ donateForm.inflight < MaxInFlight
  /\ donateForm' = [disabled |-> TRUE, inflight |-> donateForm.inflight + 1]
  /\ UNCHANGED appVars
  /\ UNCHANGED <<publishForm, deeds, runs, lastFetch, creditCalls>>

\* donate resolves (console.log) or rejects
DonateSettle ==
  /\ donateForm.inflight > 0
  /\ donateForm' = [donateForm EXCEPT !.inflight = @ - 1]
  /\ UNCHANGED appVars
  /\ UNCHANGED <<publishForm, deeds, runs, lastFetch, creditCalls>>

----------------------------------------------------------------------------
(* Overview: fetchData and the credit button *)

\* await contract.get_deeds_count() resolves; contract.social_deeds is called
\* with limit: parseInt(count)
GetDeedsCountResolve ==
  \E i \in 1..Len(runs), count \in 0..(MaxDeeds + 1) :
    /\ runs[i].pc = "count"
    /\ runs' = [runs EXCEPT ![i] = [@ EXCEPT !.pc = "page", !.limit = count]]
    /\ UNCHANGED appVars
    /\ UNCHANGED <<publishForm, donateForm, deeds, lastFetch, creditCalls>>

\* await contract.social_deeds(...) resolves; setDeeds(splitArrayIntoChunksOfLen(result, 2))
SocialDeedsResolve ==
  \E i \in 1..Len(runs) :
    /\ runs[i].pc = "page"
    /\ \E result \in Pages(runs[i].limit) :
         /\ deeds' = splitArrayIntoChunksOfLen(result, 2)
         /\ lastFetch' = [viewer |-> runs[i].viewer, limit |-> runs[i].limit,
                          result |-> result]
    /\ runs' = RemoveAt(runs, i)
    /\ UNCHANGED appVars
    /\ UNCHANGED <<publishForm, donateForm, creditCalls>>

\* either await rejects: fetchData ends, nothing catches it
FetchDataReject ==
  \E i \in 1..Len(runs) :
    /\ runs' = RemoveAt(runs, i)
    /\ UNCHANGED appVars
    /\ UNCHANGED <<publishForm, donateForm, deeds, lastFetch, creditCalls>>

\* App.onCredit(deed)
onCredit(deed) ==
  IF deed.is_creditor
  THEN /\ message' = <<"You already credited deed #", ToString(deed.id)>>
       /\ UNCHANGED creditCalls
  ELSE /\ creditCalls' = Append(creditCalls, deed)
       /\ UNCHANGED message

\* a Credit button that has an onClick is clicked
ClickCredit ==
  /\ Element = "Overview"
  /\ Len(creditCalls) < MaxInFlight
  /\ \E deed \in Displayed :
       /\ CreditButton(deed, currentUser).onClick
       /\ onCredit(deed)
  /\ UNCHANGED <<url, route, currentUser, error, lastTransaction, registered,
                 regCheck, notice, registerPc>>
  /\ UNCHANGED <<publishForm, donateForm, deeds, runs, lastFetch>>

\* the oldest credit call resolves (console.log) or rejects
CreditSettle ==
  /\ creditCalls # <<>>
  /\ creditCalls' = Tail(creditCalls)
  /\ UNCHANGED appVars
  /\ UNCHANGED <<publishForm, donateForm, deeds, runs, lastFetch>>

----------------------------------------------------------------------------

Next ==
  \/ Reload
  \/ signIn
  \/ signOut
  \/ WalletReturn
  \/ FetchRegisteredResolve
  \/ FetchRegisteredReject
  \/ Navigate
  \/ clearMessage
  \/ onRegister
  \/ StorageBalanceBoundsSettle
  \/ StorageDepositSettle
  \/ onPublishDeed
  \/ AddDeedSettle
  \/ onDonate
  \/ DonateSettle
  \/ GetDeedsCountResolve
  \/ SocialDeedsResolve
  \/ FetchDataReject
  \/ ClickCredit
  \/ CreditSettle

Spec == Init /\ [][Next]_vars

----------------------------------------------------------------------------
(* The Overview component on its own: a parent renders it for a viewer and *)
(* may render it again with another currentUser, which re-runs the effect  *)
(* (dependency array [contract, currentUser]).                             *)

InitOverview ==
  \E cu \in Accounts :
    LET m == Mounted("Overview", cu) IN
    /\ url = NoSignal
    /\ route = "overview"
    /\ currentUser = cu
    /\ error = <<>>
    /\ lastTransaction = <<>>
    /\ message = <<>>
    /\ registered = TRUE
    /\ regCheck = "true"
    /\ notice = <<>>
    /\ registerPc = "idle"
    /\ publishForm = m.publishForm
    /\ donateForm = m.donateForm
    /\ deeds = m.deeds
    /\ runs = m.runs
    /\ lastFetch = m.lastFetch
    /\ creditCalls = m.creditCalls

\* Overview is rendered with a new currentUser: the effect runs fetchData again
OverviewProps ==
  \E viewer \in Accounts \ {currentUser} :
    /\ Len(runs) < MaxRuns
    /\ currentUser' = viewer
    /\ runs' = Append(runs, NewRun(viewer))
    /\ UNCHANGED <<url, route, error, lastTransaction, message, registered,
                   regCheck, notice, registerPc>>
    /\ UNCHANGED <<publishForm, donateForm, deeds, lastFetch, creditCalls>>

NextOverview ==
  \/ OverviewProps
  \/ GetDeedsCountResolve
  \/ SocialDeedsResolve
  \/ FetchDataReject
  \/ ClickCredit
  \/ CreditSettle

SpecOverview == InitOverview /\ [][NextOverview]_vars

----------------------------------------------------------------------------
(* Properties *)

ContentOf(r) ==
  CASE r = "index"    -> "Dashboard"
    [] r = "publish"  -> "Publish"
    [] r = "overview" -> "Overview"
    [] OTHER          -> "Donate"

ContentElements == {"Dashboard", "Publish", "Overview", "Donate"}

RECURSIVE Flatten(_)
Flatten(rows) == IF rows = <<>> THEN <<>> ELSE Head(rows) \o Flatten(Tail(rows))

\* C1: every protected route renders SignIn iff currentUser is null, Register
\* iff currentUser is non-null and registered is false, and its own content
\* iff currentUser is non-null and registered is true.
C1_RoutesFollowSession ==
  \A r \in Routes :
    LET el == RouteElement(r, currentUser, registered) IN
    /\ el \in {"SignIn", "Register", ContentOf(r)}
    /\ (el = "SignIn") <=> (currentUser = Null)
    /\ (el = "Register") <=> (currentUser # Null /\ ~registered)
    /\ (el = ContentOf(r)) <=> (currentUser # Null /\ registered)

C1_Witness == currentUser # Null /\ registered /\ route = "donate"

\* C2: a content view is rendered, and get_deeds_count / social_deeds,
\* add_deed, credit or donate is in flight, only when the is_registered
\* check of this page load has resolved with true.
C2_ContentAfterRegistration ==
  (\/ \E r \in Routes : RouteElement(r, currentUser, registered) \in ContentElements
   \/ runs # <<>>
   \/ publishForm.inflight > 0
   \/ donateForm.inflight > 0
   \/ creditCalls # <<>>)
  => regCheck = "true"

C2_Witness == regCheck = "true" /\ creditCalls # <<>> /\ Element = "Overview"

\* C3: for a non-null identity, while the is_registered check is pending no
\* route renders the register view or a content view.
C3_NoBranchWhilePending ==
  (currentUser # Null /\ regCheck = "pending")
  => \A r \in Routes :
       RouteElement(r, currentUser, registered) \notin {"Register"} \cup ContentElements

\* C4: for a non-null identity whose is_registered check rejected, no route
\* renders the register view or a content view.
C4_NoBranchAfterFailure ==
  (currentUser # Null /\ regCheck = "rejected")
  => \A r \in Routes :
       RouteElement(r, currentUser, registered) \notin ContentElements \cup {"Register"}

\* C5: a page loaded with a non-empty signal has shown a message for it and
\* its retained URL no longer carries the signal, so that running the
\* notifier again on the retained URL sets nothing.
C5_SignalShownOnce ==
  (error # <<>> \/ lastTransaction # <<>>)
  => /\ notice # <<>>
     /\ url = NoSignal
     /\ ~Notifier(PropsFromUrl(url).error, PropsFromUrl(url).lastTransaction,
                  <<>>, url).set

\* C6: with both an error and a transaction id the notifier shows exactly the
\* URI-decoded error and not the success message; with neither it shows
\* nothing and leaves the URL as it was.
C6_ErrorWins ==
  /\ (error # <<>> /\ lastTransaction # <<>>)
     => /\ decodeURI(error).ok
        /\ notice = decodeURI(error).value
        /\ notice # SuccessMessage(lastTransaction)
  /\ (error = <<>> /\ lastTransaction = <<>>)
     => (notice = <<>> /\ url = NoSignal)

\* C7: a displayed deed is AlreadyCredited when is_creditor, else SelfAuthored
\* when its author is the viewer, else Eligible; only an Eligible deed has an
\* enabled button with an onClick, and only such deeds reach contract.credit.
C7_CreditDecision ==
  /\ \A deed \in Displayed :
       LET b == CreditButton(deed, currentUser) IN
       IF deed.is_creditor
       THEN b.disabled /\ ~b.onClick /\ b.tooltip = "You already credited the author."
       ELSE IF deed.author = currentUser
       THEN b.disabled /\ ~b.onClick /\ b.tooltip = "You cannot credit yourself."
       ELSE ~b.disabled /\ b.onClick
  /\ \A k \in 1..Len(creditCalls) :
       /\ creditCalls[k] \in Displayed
       /\ ~creditCalls[k].is_creditor
       /\ creditCalls[k].author # currentUser

C7_Witness ==
  /\ \E deed \in Displayed : deed.is_creditor /\ deed.author = currentUser
  /\ \E deed \in Displayed : ~deed.is_creditor /\ deed.author = currentUser
  /\ creditCalls # <<>>

\* C8: the rows displayed for a result of N deeds are ceil(N/2) rows, all of
\* length 2 except a last row of length 1 when N is odd, and their
\* concatenation is the result, also when the page is shorter than the limit.
C8_ChunkRows ==
  LET N == Len(lastFetch.result) IN
  /\ Len(deeds) = (N + 1) \div 2
  /\ \A i \in 1..Len(deeds) :
       Len(deeds[i]) = (IF i = Len(deeds) /\ N % 2 = 1 THEN 1 ELSE 2)
  /\ Flatten(deeds) = lastFetch.result

C8_Witness ==
  /\ Len(lastFetch.result) = 3
  /\ lastFetch.limit > 3
  /\ Len(deeds) = 2

C10_OneRequestInFlight ==
  /\ publishForm.inflight <= 1
  /\ publishForm.inflight > 0 => publishForm.disabled
  /\ donateForm.inflight <= 1
  /\ donateForm.inflight > 0 => donateForm.disabled

C10_Witness == publishForm.inflight = 1 /\ publishForm.disabled

====
